---- MODULE Spec2Model ----
(***************************************************************************)
(* Model of src-tauri/src/claude_cli.rs: process_with_claude_cli, the      *)
(* bounded-time runner that spawns the `claude` backend, polls it with     *)
(* try_wait every 100 ms, kills it after 30 s, and classifies the result.  *)
(*                                                                         *)
(* Strings are sequences of one-character strings.  Time is counted in     *)
(* milliseconds since `start`; only thread::sleep advances it (a sleep     *)
(* takes exactly its duration, every other step is instantaneous).         *)
(* The operating system is part of the model: the child process exits on   *)
(* its own at any moment, a descendant of it may keep the captured pipes   *)
(* open, the backend may block writing to a full pipe, and every fallible  *)
(* call (spawn, try_wait, kill, wait_with_output) may report an OS error.  *)
(*                                                                         *)
(* Spec is one call.  ProbeSpec is is_claude_cli_available beside the      *)
(* entry of a call.  ConcSpec is two calls on two threads: `peer` holds    *)
(* the state of the call that is not running at the moment and Switch      *)
(* hands the processor to it.                                              *)
(***************************************************************************)
EXTENDS Integers, Sequences, FiniteSets, TLC

(* ------------------------------ bounds --------------------------------- *)
MaxTextLen == 2
MaxOutLen == 2
MaxErrLen == 1

(* ------------------------- program constants --------------------------- *)
DEFAULT_TIMEOUT_SECS == 30
POLL_INTERVAL_MS == 100
DEFAULT_CLAUDE_MODEL == <<"haiku">>

timeout == DEFAULT_TIMEOUT_SECS * 1000

(* ------------------------------ strings -------------------------------- *)
StrUpTo(S, n) == UNION {[1..k -> S] : k \in 0..n}

TextChars == {" ", "a"}
INVALID_BYTE == "\\xFF"
REPLACEMENT_CHARACTER == "U+FFFD"
OutBytes == {" ", "a", INVALID_BYTE}
ErrBytes == {" ", INVALID_BYTE}

Texts == StrUpTo(TextChars, MaxTextLen)
Prompts == {<<"p">>}
Models == {<<>>, <<"opus">>}
OsErrors == {<<"os error">>}

IsWhitespace(c) == c \in {" ", "\t", "\n", "\r"}

RECURSIVE TrimStart(_)
TrimStart(s) ==
    IF s = <<>> THEN <<>>
    ELSE IF IsWhitespace(Head(s)) THEN TrimStart(Tail(s)) ELSE s

RECURSIVE TrimEnd(_)
TrimEnd(s) ==
    IF s = <<>> THEN <<>>
    ELSE IF IsWhitespace(s[Len(s)]) THEN TrimEnd(SubSeq(s, 1, Len(s) - 1)) ELSE s

\* mutant: emptiness tested without trimming
NoTrim(s) == s

\* str::trim
Trim(s) == TrimEnd(TrimStart(s))

\* String::from_utf8_lossy: every invalid byte becomes U+FFFD
FromUtf8Lossy(bytes) ==
    [i \in 1..Len(bytes) |->
        IF bytes[i] = INVALID_BYTE THEN REPLACEMENT_CHARACTER ELSE bytes[i]]

(* --------------------------- argument vector --------------------------- *)
FullPrompt(p, t) == p \o <<"\n\nText:\n">> \o t
ModelToUse(m) == IF m = <<>> THEN DEFAULT_CLAUDE_MODEL ELSE m
Argv(t, p, m) == <<<<"--model">>, ModelToUse(m), <<"-p">>, FullPrompt(p, t)>>

(* ------------------------------ results -------------------------------- *)
NoOutcome == [tag |-> "none", value |-> <<>>]
Ok(v) == [tag |-> "Ok", value |-> v]
Err(prefix, detail) == [tag |-> "Err", value |-> <<prefix>> \o detail]

SPAWN_MSG == "Failed to spawn Claude CLI: "
READ_MSG == "Failed to read Claude CLI output: "
FAILED_MSG == "Claude CLI failed: "
WAIT_MSG == "Error waiting for Claude CLI: "
TIMEOUT_MSG == "Claude CLI timed out after "

TimeoutErr == Err(TIMEOUT_MSG, <<ToString(DEFAULT_TIMEOUT_SECS), " seconds">>)

\* ExitStatus::success
Success(st) == st = 0

ExitCodes == {0, 1}
NoStatus == -1
SIGKILL_STATUS == -9

VARIABLES
    text, prompt, model,    \* the arguments of the call
    pc,                     \* where the call is
    argv,                   \* the argument vector the child was started with
    proc,                   \* the child: "none", "running", "zombie", "reaped"
    status,                 \* the exit status the child ended with
    pipeHeld,               \* a descendant still holds the write end of the pipes
    pipeFull,               \* the backend is blocked writing to a full pipe
    elapsed,                \* start.elapsed(), in ms
    observed,               \* the status try_wait returned
    output,                 \* what wait_with_output collected
    killResult,             \* what child.kill() returned
    oserr,                  \* the call that reported an OS error, if any
    outcome,                \* the returned Result
    calls,                  \* how often each OS call was made
    probe,                  \* is_claude_cli_available: its position and result
    peer                    \* the state of the other call (ConcSpec)

vars == <<text, prompt, model, pc, argv, proc, status, pipeHeld, pipeFull,
          elapsed, observed, output, killResult, oserr, outcome, calls, probe,
          peer>>

NoOutput == [collected |-> FALSE, stdout |-> <<>>, stderr |-> <<>>]
NoCalls == [spawn |-> 0, try_wait |-> 0, sleep |-> 0, kill |-> 0,
            wait_with_output |-> 0]

Bump(op) == [calls EXCEPT ![op] = @ + 1]

\* the state of the running call, as one record
CallState ==
    [text |-> text, prompt |-> prompt, model |-> model, pc |-> pc,
     argv |-> argv, proc |-> proc, status |-> status, pipeHeld |-> pipeHeld,
     pipeFull |-> pipeFull, elapsed |-> elapsed, observed |-> observed,
     output |-> output, killResult |-> killResult, oserr |-> oserr,
     outcome |-> outcome, calls |-> calls]

\* a call at its entry
Fresh(t, p, m) ==
    [text |-> t, prompt |-> p, model |-> m, pc |-> "entry", argv |-> <<>>,
     proc |-> "none", status |-> NoStatus, pipeHeld |-> FALSE,
     pipeFull |-> FALSE, elapsed |-> 0, observed |-> NoStatus,
     output |-> NoOutput, killResult |-> "none", oserr |-> "none",
     outcome |-> NoOutcome, calls |-> NoCalls]

\* the running call is in state s
Load(s) ==
    /\ text = s.text
    /\ prompt = s.prompt
    /\ model = s.model
    /\ pc = s.pc
    /\ argv = s.argv
    /\ proc = s.proc
    /\ status = s.status
    /\ pipeHeld = s.pipeHeld
    /\ pipeFull = s.pipeFull
    /\ elapsed = s.elapsed
    /\ observed = s.observed
    /\ output = s.output
    /\ killResult = s.killResult
    /\ oserr = s.oserr
    /\ outcome = s.outcome
    /\ calls = s.calls

ProbeIdle ==
    [pc |-> "idle", status |-> NoStatus, observed |-> NoStatus, result |-> "none"]
NoPeer == [Fresh(<<>>, <<>>, <<>>) EXCEPT !.pc = "absent"]

Init ==
    /\ \E t \in Texts, p \in Prompts, m \in Models : Load(Fresh(t, p, m))
    /\ probe = ProbeIdle
    /\ peer = NoPeer

Return(o) ==
    /\ outcome' = o
    /\ pc' = "done"

\* mutant: the spawn failure reported with the wait-error message
EntryWaitMessage ==
    /\ pc = "entry"
    /\ IF Trim(text) = <<>>
       THEN /\ Return(Ok(text))
            /\ UNCHANGED <<argv, proc, elapsed, oserr, calls>>
       ELSE /\ calls' = Bump("spawn")
            /\ \/ /\ proc' = "running"
                  /\ argv' = Argv(text, prompt, model)
                  /\ elapsed' = 0
                  /\ pc' = "try_wait"
                  /\ UNCHANGED <<oserr, outcome>>
               \/ \E e \in OsErrors :
                  /\ oserr' = "spawn"
                  /\ Return(Err(WAIT_MSG, e))
                  /\ UNCHANGED <<argv, proc, elapsed>>
    /\ UNCHANGED <<probe, peer, pipeFull>>
    /\ UNCHANGED <<text, prompt, model, status, pipeHeld, observed, output,
                   killResult>>

\* mutant: the blocking harvest called right after the spawn, without polling
EntryHarvestsAtOnce ==
    /\ pc = "entry"
    /\ IF Trim(text) = <<>>
       THEN /\ Return(Ok(text))
            /\ UNCHANGED <<argv, proc, elapsed, oserr, calls>>
       ELSE /\ calls' = Bump("spawn")
            /\ \/ /\ proc' = "running"
                  /\ argv' = Argv(text, prompt, model)
                  /\ elapsed' = 0
                  /\ pc' = "wait_with_output"
                  /\ UNCHANGED <<oserr, outcome>>
               \/ \E e \in OsErrors :
                  /\ oserr' = "spawn"
                  /\ Return(Err(SPAWN_MSG, e))
                  /\ UNCHANGED <<argv, proc, elapsed>>
    /\ UNCHANGED <<probe, peer, pipeFull>>
    /\ UNCHANGED <<text, prompt, model, status, pipeHeld, observed, output,
                   killResult>>

(* lines 22-48: the fast path, the argument vector and the spawn *)
Entry ==
    /\ pc = "entry"
    /\ IF Trim(text) = <<>>
       THEN /\ Return(Ok(text))
            /\ UNCHANGED <<argv, proc, elapsed, oserr, calls>>
       ELSE /\ calls' = Bump("spawn")
            /\ \/ /\ proc' = "running"
                  /\ argv' = Argv(text, prompt, model)
                  /\ elapsed' = 0
                  /\ pc' = "try_wait"
                  /\ UNCHANGED <<oserr, outcome>>
               \/ \E e \in OsErrors :
                  /\ oserr' = "spawn"
                  /\ Return(Err(SPAWN_MSG, e))
                  /\ UNCHANGED <<argv, proc, elapsed>>
    /\ UNCHANGED <<probe, peer, pipeFull>>
    /\ UNCHANGED <<text, prompt, model, status, pipeHeld, observed, output,
                   killResult>>

\* mutant: the deadline test written >= instead of >
TryWaitDeadlineInclusive ==
    /\ pc = "try_wait"
    /\ calls' = Bump("try_wait")
    /\ \/ /\ proc = "zombie"
          /\ proc' = "reaped"
          /\ observed' = status
          /\ pc' = "wait_with_output"
          /\ UNCHANGED <<oserr, outcome>>
       \/ /\ proc = "running"
          /\ pc' = IF elapsed >= timeout THEN "kill" ELSE "sleep"
          /\ UNCHANGED <<proc, observed, oserr, outcome>>
       \/ \E e \in OsErrors :
          /\ oserr' = "try_wait"
          /\ Return(Err(WAIT_MSG, e))
          /\ UNCHANGED <<proc, observed>>
    /\ UNCHANGED <<probe, peer, pipeFull>>
    /\ UNCHANGED <<text, prompt, model, argv, status, pipeHeld, elapsed, output,
                   killResult>>

\* mutant: a failed status check answered by starting over
TryWaitRetries ==
    /\ pc = "try_wait"
    /\ calls' = Bump("try_wait")
    /\ \/ /\ proc = "zombie"
          /\ proc' = "reaped"
          /\ observed' = status
          /\ pc' = "wait_with_output"
          /\ UNCHANGED <<oserr, outcome>>
       \/ /\ proc = "running"
          /\ pc' = IF elapsed > timeout THEN "kill" ELSE "sleep"
          /\ UNCHANGED <<proc, observed, oserr, outcome>>
       \/ /\ oserr' = "try_wait"
          /\ pc' = "entry"
          /\ UNCHANGED <<proc, observed, outcome>>
    /\ UNCHANGED <<probe, peer, pipeFull>>
    /\ UNCHANGED <<text, prompt, model, argv, status, pipeHeld, elapsed, output,
                   killResult>>

\* mutant: the deadline tested before the status check
TryWaitDeadlineFirst ==
    /\ pc = "try_wait"
    /\ IF elapsed > timeout
       THEN /\ pc' = "kill"
            /\ UNCHANGED <<proc, observed, oserr, outcome, calls>>
       ELSE /\ calls' = Bump("try_wait")
            /\ \/ /\ proc = "zombie"
                  /\ proc' = "reaped"
                  /\ observed' = status
                  /\ pc' = "wait_with_output"
                  /\ UNCHANGED <<oserr, outcome>>
               \/ /\ proc = "running"
                  /\ pc' = "sleep"
                  /\ UNCHANGED <<proc, observed, oserr, outcome>>
               \/ \E e \in OsErrors :
                  /\ oserr' = "try_wait"
                  /\ Return(Err(WAIT_MSG, e))
                  /\ UNCHANGED <<proc, observed>>
    /\ UNCHANGED <<probe, peer, pipeFull>>
    /\ UNCHANGED <<text, prompt, model, argv, status, pipeHeld, elapsed, output,
                   killResult>>

(* lines 51-52, 71-73, 81, 84-86: one status check of the loop *)
TryWait ==
    /\ pc = "try_wait"
    /\ calls' = Bump("try_wait")
    /\ \/ /\ proc = "zombie"                      \* Ok(Some(status)): reaps
          /\ proc' = "reaped"
          /\ observed' = status
          /\ pc' = "wait_with_output"
          /\ UNCHANGED <<oserr, outcome>>
       \/ /\ proc = "running"                     \* Ok(None)
          /\ pc' = IF elapsed > timeout THEN "kill" ELSE "sleep"
          /\ UNCHANGED <<proc, observed, oserr, outcome>>
       \/ \E e \in OsErrors :                     \* Err(e)
          /\ oserr' = "try_wait"
          /\ Return(Err(WAIT_MSG, e))
          /\ UNCHANGED <<proc, observed>>
    /\ UNCHANGED <<probe, peer, pipeFull>>
    /\ UNCHANGED <<text, prompt, model, argv, status, pipeHeld, elapsed, output,
                   killResult>>

(* line 82 *)
Sleep ==
    /\ pc = "sleep"
    /\ calls' = Bump("sleep")
    /\ elapsed' = elapsed + POLL_INTERVAL_MS
    /\ pc' = "try_wait"
    /\ UNCHANGED <<probe, peer, pipeFull>>
    /\ UNCHANGED <<text, prompt, model, argv, proc, status, pipeHeld, observed,
                   output, killResult, oserr, outcome>>

\* mutant: the timeout error returned without killing the child
KillOmitted ==
    /\ pc = "kill"
    /\ Return(TimeoutErr)
    /\ UNCHANGED <<probe, peer, pipeFull>>
    /\ UNCHANGED <<text, prompt, model, argv, proc, status, pipeHeld, elapsed,
                   observed, output, killResult, oserr, calls>>

\* mutant: the kill's error propagated instead of dropped
KillErrorPropagated ==
    /\ pc = "kill"
    /\ calls' = Bump("kill")
    /\ \/ /\ killResult' = "ok"
          /\ IF proc = "running"
             THEN /\ proc' = "zombie"
                  /\ status' = SIGKILL_STATUS
             ELSE UNCHANGED <<proc, status>>
          /\ Return(TimeoutErr)
       \/ \E e \in OsErrors :
          /\ killResult' = "err"
          /\ Return(Err(WAIT_MSG, e))
          /\ UNCHANGED <<proc, status>>
    /\ UNCHANGED <<probe, peer, pipeFull>>
    /\ UNCHANGED <<text, prompt, model, argv, pipeHeld, elapsed, observed, output,
                   oserr>>

\* mutant: the kill sent to every running backend, not to the call's own child
KillPeer ==
    /\ pc = "kill"
    /\ calls' = Bump("kill")
    /\ \/ /\ killResult' = "ok"
          /\ IF proc = "running"
             THEN /\ proc' = "zombie"
                  /\ status' = SIGKILL_STATUS
             ELSE UNCHANGED <<proc, status>>
          /\ peer' = IF peer.proc = "running"
                     THEN [peer EXCEPT !.proc = "zombie",
                                       !.status = SIGKILL_STATUS]
                     ELSE peer
       \/ /\ killResult' = "err"
          /\ UNCHANGED <<proc, status, peer>>
    /\ Return(TimeoutErr)
    /\ UNCHANGED <<probe, pipeFull>>
    /\ UNCHANGED <<text, prompt, model, argv, pipeHeld, elapsed, observed, output,
                   oserr>>

(* lines 75-79: the kill, its result dropped, and the timeout error *)
Kill ==
    /\ pc = "kill"
    /\ calls' = Bump("kill")
    /\ \/ /\ killResult' = "ok"
          /\ IF proc = "running"
             THEN /\ proc' = "zombie"
                  /\ status' = SIGKILL_STATUS
             ELSE UNCHANGED <<proc, status>>
       \/ /\ killResult' = "err"
          /\ UNCHANGED <<proc, status>>
    /\ Return(TimeoutErr)
    /\ UNCHANGED <<probe, peer, pipeFull>>
    /\ UNCHANGED <<text, prompt, model, argv, pipeHeld, elapsed, observed, output,
                   oserr>>

\* mutant: stdout returned untrimmed
ClassifyUntrimmed(st, out) ==
    IF Success(st)
    THEN LET result == FromUtf8Lossy(out.stdout)
         IN  IF Trim(result) = <<>> THEN Ok(text) ELSE Ok(result)
    ELSE Err(FAILED_MSG, FromUtf8Lossy(out.stderr))

\* mutant: an empty result returned as it is
ClassifyEmptyResult(st, out) ==
    IF Success(st)
    THEN Ok(Trim(FromUtf8Lossy(out.stdout)))
    ELSE Err(FAILED_MSG, FromUtf8Lossy(out.stderr))

\* mutant: stderr trimmed like stdout
ClassifyTrimmedStderr(st, out) ==
    IF Success(st)
    THEN LET result == Trim(FromUtf8Lossy(out.stdout))
         IN  IF result = <<>> THEN Ok(text) ELSE Ok(result)
    ELSE Err(FAILED_MSG, Trim(FromUtf8Lossy(out.stderr)))

\* mutant: stderr returned on success
ClassifyStderrOnSuccess(st, out) ==
    IF Success(st)
    THEN LET result == Trim(FromUtf8Lossy(out.stderr))
         IN  IF result = <<>> THEN Ok(text) ELSE Ok(result)
    ELSE Err(FAILED_MSG, FromUtf8Lossy(out.stderr))

(* lines 54-69: the harvest and the classification *)
Classify(st, out) ==
    IF Success(st)
    THEN LET result == Trim(FromUtf8Lossy(out.stdout))
         IN  IF result = <<>> THEN Ok(text) ELSE Ok(result)
    ELSE Err(FAILED_MSG, FromUtf8Lossy(out.stderr))

\* mutant: a failed harvest answered with the original text
WaitWithOutputDefaultsOnError ==
    /\ pc = "wait_with_output"
    /\ ~pipeHeld
    /\ \/ \E so \in StrUpTo(OutBytes, MaxOutLen), se \in StrUpTo(ErrBytes, MaxErrLen) :
             /\ output' = [collected |-> TRUE, stdout |-> so, stderr |-> se]
             /\ Return(Classify(observed, output'))
             /\ UNCHANGED oserr
       \/ /\ oserr' = "wait_with_output"
          /\ Return(Ok(text))
          /\ UNCHANGED output
    /\ calls' = Bump("wait_with_output")
    /\ UNCHANGED <<probe, peer, pipeFull>>
    /\ UNCHANGED <<text, prompt, model, argv, proc, status, pipeHeld, elapsed,
                   observed, killResult>>

\* wait_with_output reads both pipes to end-of-file: it completes only once
\* every write end is closed
WaitWithOutput ==
    /\ pc = "wait_with_output"
    /\ ~pipeHeld
    /\ \/ \E so \in StrUpTo(OutBytes, MaxOutLen), se \in StrUpTo(ErrBytes, MaxErrLen) :
             /\ output' = [collected |-> TRUE, stdout |-> so, stderr |-> se]
             /\ Return(Classify(observed, output'))
             /\ UNCHANGED oserr
       \/ \E e \in OsErrors :
          /\ oserr' = "wait_with_output"
          /\ Return(Err(READ_MSG, e))
          /\ UNCHANGED output
    /\ calls' = Bump("wait_with_output")
    /\ UNCHANGED <<probe, peer, pipeFull>>
    /\ UNCHANGED <<text, prompt, model, argv, proc, status, pipeHeld, elapsed,
                   observed, killResult>>

(* ----------------------------- environment ----------------------------- *)
\* the backend has written more than the pipe holds and nothing reads it
\* while it runs (the pipes are read on line 55 only): it blocks in write
BackendBlocks ==
    /\ proc = "running"
    /\ ~pipeFull
    /\ pipeFull' = TRUE
    /\ UNCHANGED <<probe, peer, text, prompt, model, pc, argv, proc, status,
                   pipeHeld, elapsed, observed, output, killResult, oserr,
                   outcome, calls>>

\* the backend exits on its own, its output written
ChildExit ==
    /\ proc = "running"
    /\ ~pipeFull
    /\ proc' = "zombie"
    /\ status' \in ExitCodes
    /\ pipeHeld' \in BOOLEAN
    /\ UNCHANGED <<probe, peer, pipeFull>>
    /\ UNCHANGED <<text, prompt, model, pc, argv, elapsed, observed, output,
                   killResult, oserr, outcome, calls>>

\* the last descendant holding the pipes closes them
DescendantExit ==
    /\ pipeHeld
    /\ pipeHeld' = FALSE
    /\ UNCHANGED <<probe, peer, pipeFull>>
    /\ UNCHANGED <<text, prompt, model, pc, argv, proc, status, elapsed, observed,
                   output, killResult, oserr, outcome, calls>>

Next ==
    \/ Entry
    \/ TryWait
    \/ Sleep
    \/ Kill
    \/ WaitWithOutput
    \/ BackendBlocks
    \/ ChildExit
    \/ DescendantExit

Spec == Init /\ [][Next]_vars

(* ---------------------- is_claude_cli_available ------------------------ *)
CallVars == <<text, prompt, model, pc, argv, proc, status, pipeHeld, pipeFull,
              elapsed, observed, output, killResult, oserr, outcome, calls>>

\* line 94: Command::output starts `claude --version`; a spawn error is
\* answered false (lines 105-108)
ProbeSpawn ==
    /\ probe.pc = "idle"
    /\ \/ probe' = [probe EXCEPT !.pc = "running"]
       \/ probe' = [probe EXCEPT !.pc = "done", !.result = "false"]
    /\ UNCHANGED <<CallVars, peer>>

\* the version query exits, or is ended by a signal
ProbeChildExit ==
    /\ probe.pc = "running"
    /\ \E st \in ExitCodes \cup {SIGKILL_STATUS} :
          probe' = [probe EXCEPT !.pc = "exited", !.status = st]
    /\ UNCHANGED <<CallVars, peer>>

\* mutant: any completed version query taken as success
ProbeOutputAnyExit ==
    /\ probe.pc = "exited"
    /\ \/ probe' = [probe EXCEPT !.pc = "done", !.observed = probe.status,
                                 !.result = "true"]
       \/ probe' = [probe EXCEPT !.pc = "done", !.result = "false"]
    /\ UNCHANGED <<CallVars, peer>>

\* lines 94-108: Command::output returns once the query has exited:
\* Ok(output) is answered output.status.success(), Err(e) false
ProbeOutput ==
    /\ probe.pc = "exited"
    /\ \/ probe' = [probe EXCEPT !.pc = "done", !.observed = probe.status,
                                 !.result = IF Success(probe.status)
                                            THEN "true" ELSE "false"]
       \/ probe' = [probe EXCEPT !.pc = "done", !.result = "false"]
    /\ UNCHANGED <<CallVars, peer>>

ProbeNext ==
    \/ ProbeSpawn
    \/ ProbeChildExit
    \/ ProbeOutput
    \/ Entry

\* the probe beside the entry of a call
ProbeSpec == Init /\ [][ProbeNext]_vars

\* the calling thread keeps running: every enabled step of the call is taken.
\* Nothing obliges the backend or its descendants to exit.
FairSpec ==
    /\ Spec
    /\ WF_vars(Entry)
    /\ WF_vars(TryWait)
    /\ WF_vars(Sleep)
    /\ WF_vars(Kill)
    /\ WF_vars(WaitWithOutput)

(* -------------------------- two calls at once -------------------------- *)
\* Every piece of state of process_with_claude_cli is a local of the call
\* (lines 26-47: full_prompt, model_to_use, child, timeout, start); the file
\* has no static and no shared handle. Two calls are modelled as the running
\* call and `peer`; Switch is the scheduler handing the processor to the other.

\* a call in its last polling round before the deadline: spawned, the backend
\* still running, start.elapsed() = timeout
LateCall(t, p, m) ==
    [Fresh(t, p, m) EXCEPT
        !.pc = "try_wait",
        !.argv = Argv(t, p, m),
        !.proc = "running",
        !.elapsed = timeout,
        !.calls = [NoCalls EXCEPT !.spawn = 1,
                                  !.try_wait = timeout \div POLL_INTERVAL_MS,
                                  !.sleep = timeout \div POLL_INTERVAL_MS]]

\* where a call is taken up: at its entry with a blank text, or in its last
\* polling round with a text that needs the backend
ConcStarts ==
    {Fresh(<<" ">>, p, <<>>) : p \in Prompts}
    \cup {LateCall(<<"a">>, p, <<>>) : p \in Prompts}

ConcInit ==
    /\ \E a \in ConcStarts : Load(a)
    /\ peer \in ConcStarts
    /\ probe = ProbeIdle

\* the other call gets the processor
Switch ==
    /\ peer.pc # "absent"
    /\ peer' = CallState
    /\ text' = peer.text
    /\ prompt' = peer.prompt
    /\ model' = peer.model
    /\ pc' = peer.pc
    /\ argv' = peer.argv
    /\ proc' = peer.proc
    /\ status' = peer.status
    /\ pipeHeld' = peer.pipeHeld
    /\ pipeFull' = peer.pipeFull
    /\ elapsed' = peer.elapsed
    /\ observed' = peer.observed
    /\ output' = peer.output
    /\ killResult' = peer.killResult
    /\ oserr' = peer.oserr
    /\ outcome' = peer.outcome
    /\ calls' = peer.calls
    /\ UNCHANGED probe

ConcNext ==
    \/ Switch
    \/ Entry
    \/ TryWait
    \/ Sleep
    \/ Kill
    \/ WaitWithOutput
    \/ BackendBlocks
    \/ ChildExit
    \/ DescendantExit

ConcSpec == ConcInit /\ [][ConcNext]_vars

(* ======================= vocabulary of the claims ====================== *)
Returned == pc = "done"
IsFailure == outcome.tag = "Err"
Prefix == IF outcome.tag = "Err" THEN Head(outcome.value) ELSE ""
Detail == IF outcome.tag = "Err" THEN Tail(outcome.value) ELSE <<>>

\* the error taxonomy of the design: the kind of a returned failure
Kind ==
    CASE Prefix = SPAWN_MSG -> "SpawnError"
      [] Prefix = WAIT_MSG -> "WaitError"
      [] Prefix = READ_MSG -> "WaitError"
      [] Prefix = TIMEOUT_MSG -> "Timeout"
      [] Prefix = FAILED_MSG -> "BackendError"
      [] OTHER -> "none"

AllWhitespace(s) == \A i \in 1..Len(s) : IsWhitespace(s[i])

\* v is s without its leading and trailing whitespace
IsTrimOf(v, s) ==
    \E i, j \in 0..Len(s) :
        /\ i + j <= Len(s)
        /\ v = SubSeq(s, i + 1, Len(s) - j)
        /\ AllWhitespace(SubSeq(s, 1, i))
        /\ AllWhitespace(SubSeq(s, Len(s) - j + 1, Len(s)))
        /\ v # <<>> => ~IsWhitespace(v[1]) /\ ~IsWhitespace(v[Len(v)])

\* the exit was observed and both streams were collected
Harvested == observed # NoStatus /\ output.collected

MaxStatusChecks == (timeout \div POLL_INTERVAL_MS) + 2

(* ------------------------------- C1 ------------------------------------ *)
\* C1: whenever the call has returned, the child it spawned (if any) has been
\* reaped: none is left running, and none is left killed or exited but unreaped.
C1_ChildReapedBeforeReturn ==
    Returned => proc \in {"none", "reaped"}

(* ------------------------------- C2 ------------------------------------ *)
\* the loop never runs past the first status check after the deadline, and a
\* process found running then is killed, never slept on
C2_LoopBound ==
    /\ pc \in {"try_wait", "kill", "wait_with_output"}
          => elapsed <= timeout + POLL_INTERVAL_MS
    /\ pc = "sleep" => elapsed <= timeout
    /\ pc = "kill" => elapsed > timeout
    /\ Returned /\ calls.kill > 0 => outcome = TimeoutErr

C3_AlwaysReturnsOnce ==
    /\ <>Returned
    /\ [](calls.try_wait <= MaxStatusChecks)
    /\ [][outcome # NoOutcome => outcome' = outcome]_vars

(* ------------------------------- C4 ------------------------------------ *)
\* C4: on a text that is empty or all whitespace the call spawns, polls and
\* kills nothing, and returns Ok with the text as given, untrimmed.
C4_BlankTextPassThrough ==
    AllWhitespace(text) =>
        /\ calls = NoCalls
        /\ proc = "none"
        /\ argv = <<>>
        /\ pc \in {"entry", "done"}
        /\ Returned => outcome = Ok(text)

C4_Witness ==
    /\ Returned
    /\ text = <<" ", " ">>
    /\ model = <<>>
    /\ outcome = Ok(<<" ", " ">>)

(* ------------------------------- C5 ------------------------------------ *)
\* C5: a call that returns because a status check failed has made no further
\* status check and no harvest, and has attempted to kill the child first.
C5_WaitErrorKillsChild ==
    Returned /\ oserr = "try_wait" =>
        /\ Kind = "WaitError"
        /\ calls.wait_with_output = 0
        /\ calls.kill >= 1

(* ------------------------------- C6 ------------------------------------ *)
\* C6: when the spawn fails the call returns SpawnError at once: no status
\* check, sleep, kill or harvest is made and no process exists.
C6_SpawnErrorImmediate ==
    /\ oserr = "spawn" =>
          /\ Returned
          /\ Kind = "SpawnError"
          /\ calls = [NoCalls EXCEPT !.spawn = 1]
          /\ proc = "none"
    /\ calls.spawn = 1 /\ proc = "none" => oserr = "spawn"

C6_Witness ==
    /\ Returned
    /\ Kind = "SpawnError"
    /\ calls.spawn = 1
    /\ Trim(text) # <<>>

(* ------------------------------- C7 ------------------------------------ *)
\* C7: after an observed exit with code 0 whose collected stdout is not blank,
\* the call returns Ok with exactly the stdout text stripped of its leading and
\* trailing whitespace, whatever stderr held.
C7_SuccessIsTrimmedStdout ==
    Returned /\ Harvested /\ observed = 0
             /\ ~AllWhitespace(FromUtf8Lossy(output.stdout)) =>
        /\ outcome.tag = "Ok"
        /\ outcome.value # <<>>
        /\ IsTrimOf(outcome.value, FromUtf8Lossy(output.stdout))

C7_Witness ==
    /\ Returned
    /\ observed = 0
    /\ output.stdout = <<" ", "a">>
    /\ output.stderr = <<" ">>
    /\ text = <<"a", " ">>
    /\ outcome = Ok(<<"a">>)

(* ------------------------------- C8 ------------------------------------ *)
\* C8: after an observed exit with code 0 whose collected stdout is empty or
\* all whitespace, the call returns Ok with the request text as given.
C8_BlankStdoutPassThrough ==
    Returned /\ Harvested /\ observed = 0
             /\ AllWhitespace(FromUtf8Lossy(output.stdout)) =>
        outcome = Ok(text)

C8_Witness ==
    /\ Returned
    /\ observed = 0
    /\ output.collected
    /\ output.stdout = <<" ">>
    /\ text = <<" ", "a">>
    /\ outcome = Ok(<<" ", "a">>)

(* ------------------------------- C9 ------------------------------------ *)
\* C9: after an observed non-zero exit the call returns BackendError whose
\* detail is the whole decoded stderr, untrimmed, whatever stdout held.
C9_BackendErrorCarriesStderr ==
    Returned /\ Harvested /\ observed # 0 =>
        /\ Kind = "BackendError"
        /\ Len(Detail) = Len(output.stderr)
        /\ \A i \in 1..Len(Detail) :
              Detail[i] = IF output.stderr[i] = INVALID_BYTE
                          THEN REPLACEMENT_CHARACTER ELSE output.stderr[i]

C9_Witness ==
    /\ Returned
    /\ observed = 1
    /\ output.stderr = <<" ">>
    /\ output.stdout = <<"a", " ">>
    /\ outcome = Err(FAILED_MSG, <<" ">>)

(* ------------------------------- C10 ----------------------------------- *)
\* C10: every returned failure has one of the four kinds, and the kind names
\* its cause: SpawnError only when no process was created, WaitError only
\* after try_wait or wait_with_output reported an OS error, Timeout only after
\* a status check past the deadline and a kill, BackendError only after a
\* non-zero exit was observed.
C10_ClosedTaxonomy ==
    Returned /\ IsFailure =>
        /\ Kind \in {"SpawnError", "WaitError", "Timeout", "BackendError"}
        /\ Kind = "SpawnError" => oserr = "spawn" /\ proc = "none"
        /\ Kind = "WaitError" => oserr \in {"try_wait", "wait_with_output"}
        /\ Kind = "Timeout" =>
              oserr = "none" /\ elapsed > timeout /\ calls.kill = 1
        /\ Kind = "BackendError" =>
              oserr = "none" /\ Harvested /\ ~Success(observed)

C10_Witness ==
    /\ Returned
    /\ Kind = "WaitError"
    /\ oserr = "wait_with_output"
    /\ proc = "reaped"

(* ------------------------------- C11 ----------------------------------- *)
\* C11: the output streams are read only after a status check has seen the
\* process exited: whenever the harvest is about to run, has run or has
\* collected output, try_wait has returned a status and reaped the process.
C11_HarvestAfterExit ==
    pc = "wait_with_output" \/ calls.wait_with_output > 0 \/ output.collected =>
        /\ observed # NoStatus
        /\ observed = status
        /\ proc = "reaped"
        /\ calls.try_wait >= 1

C11_Witness ==
    /\ Returned
    /\ output.collected
    /\ calls.sleep > 0
    /\ proc = "reaped"

(* ------------------------------- C13 ----------------------------------- *)
\* what the environment did to the call determines the outcome
ExpectedOutcome ==
    CASE AllWhitespace(text) -> Ok(text)
      [] ~AllWhitespace(text) /\ oserr = "spawn" -> Err(SPAWN_MSG, Detail)
      [] ~AllWhitespace(text) /\ oserr = "try_wait" -> Err(WAIT_MSG, Detail)
      [] ~AllWhitespace(text) /\ oserr = "wait_with_output" -> Err(READ_MSG, Detail)
      [] ~AllWhitespace(text) /\ oserr = "none" /\ observed = NoStatus -> TimeoutErr
      [] ~AllWhitespace(text) /\ oserr = "none" /\ observed = 0 ->
            IF AllWhitespace(FromUtf8Lossy(output.stdout)) THEN Ok(text)
            ELSE Ok(Trim(FromUtf8Lossy(output.stdout)))
      [] OTHER -> Err(FAILED_MSG, FromUtf8Lossy(output.stderr))

\* C13: the outcome is a function of the text and of the backend's behaviour
\* as the call met it (spawn result, status-check results, exit status,
\* collected streams): two calls that agree on these return the same outcome.
C13_OutcomeDetermined ==
    Returned =>
        /\ outcome = ExpectedOutcome
        /\ IsFailure /\ oserr # "none" => Detail \in OsErrors
        /\ oserr = "none" /\ observed = NoStatus /\ ~AllWhitespace(text) =>
              elapsed = timeout + POLL_INTERVAL_MS

C13_Witness ==
    /\ Returned
    /\ observed = 0
    /\ calls.sleep = 2
    /\ output.stdout = <<"a", " ">>
    /\ outcome = Ok(<<"a">>)

(* ------------------------------- C14 ----------------------------------- *)
\* C14: a call spawns at most once: a call on non-blank text has attempted
\* exactly one spawn once past its entry, whatever failure followed, and a
\* call on blank text none.
C14_SingleSpawn ==
    /\ calls.spawn <= 1
    /\ pc # "entry" /\ ~AllWhitespace(text) => calls.spawn = 1
    /\ AllWhitespace(text) => calls.spawn = 0

C14_Witness ==
    /\ Returned
    /\ oserr = "try_wait"
    /\ calls.sleep > 0
    /\ calls.spawn = 1

(* ------------------------------- C16 ----------------------------------- *)
\* C16: Timeout is returned only when the status check made after the last
\* sleep, strictly past the deadline, did not see the process exited; once a
\* status check has seen the exit, also past the deadline, no kill is sent and
\* the outcome is the harvest's, never Timeout.
C16_ExitCheckFirst ==
    /\ pc = "kill" \/ (Returned /\ Kind = "Timeout") =>
          /\ elapsed > timeout
          /\ observed = NoStatus
          /\ calls.try_wait = calls.sleep + 1
    /\ observed # NoStatus =>
          /\ calls.kill = 0
          /\ pc \in {"wait_with_output", "done"}
          /\ Returned => /\ Kind # "Timeout"
                         /\ calls.wait_with_output = 1
                         /\ output.collected =>
                               outcome.tag = "Ok" \/ Kind = "BackendError"

C16_Witness ==
    /\ Returned
    /\ elapsed = timeout + POLL_INTERVAL_MS
    /\ observed = 0
    /\ calls.kill = 0
    /\ outcome.tag = "Ok"

(* ------------------------------- C17 ----------------------------------- *)
\* C17: a call that has reached the kill returns Timeout after it with no
\* further status check, wait or read, whether the kill succeeded or not; a
\* call that sent a kill returns nothing else.
C17_TimeoutAfterKill ==
    /\ pc = "kill" =>
          calls.kill = 0 /\ calls.wait_with_output = 0 /\ ~output.collected
    /\ calls.kill > 0 =>
          /\ Returned
          /\ outcome = TimeoutErr
          /\ calls.kill = 1
          /\ killResult \in {"ok", "err"}
          /\ calls.try_wait = calls.sleep + 1
          /\ calls.wait_with_output = 0
          /\ ~output.collected
          /\ observed = NoStatus

C17_Witness ==
    /\ Returned
    /\ killResult = "err"
    /\ proc = "running"
    /\ outcome = TimeoutErr

(* ------------------------------- C19 ----------------------------------- *)
\* C19: once a status check has seen the exit, the harvest can complete: it
\* never waits on anything that is still running.
C19_HarvestNeverBlocks ==
    pc = "wait_with_output" => ENABLED WaitWithOutput

(* ------------------------------- C20 ----------------------------------- *)
\* C20: every Ok value is the text as given (blank text, or exit 0 with blank
\* stdout), or the non-empty stdout of a backend seen exited with code 0,
\* stripped of surrounding whitespace; it is empty only if the text is, and it
\* never comes from a call that sent a kill.
C20_OkValues ==
    Returned /\ outcome.tag = "Ok" =>
        /\ calls.kill = 0
        /\ outcome.value = <<>> => text = <<>>
        /\ \/ /\ outcome.value = text
              /\ \/ AllWhitespace(text) /\ calls = NoCalls
                 \/ /\ Harvested
                    /\ observed = 0
                    /\ AllWhitespace(FromUtf8Lossy(output.stdout))
           \/ /\ Harvested
              /\ observed = 0
              /\ outcome.value # <<>>
              /\ IsTrimOf(outcome.value, FromUtf8Lossy(output.stdout))

C20_Witness ==
    /\ Returned
    /\ observed = 0
    /\ text = <<"a">>
    /\ output.stdout = <<INVALID_BYTE, " ">>
    /\ output.stderr = <<" ">>
    /\ outcome = Ok(<<REPLACEMENT_CHARACTER>>)

(* ------------------------------- C18 ----------------------------------- *)
\* C18: the outcome does not depend on the output fitting the pipe: a backend
\* blocked writing to a full pipe is never left blocked until the deadline,
\* so no call reaches the kill, or returns Timeout after a kill that worked,
\* on a backend that is waiting for its output to be read.
C18_NoTimeoutOnFullPipe ==
    pc = "kill" \/ (Returned /\ Kind = "Timeout" /\ killResult = "ok") => ~pipeFull

(* ------------------------------- C15 ----------------------------------- *)
C15_ProbeAnswer ==
    /\ probe.pc # "done" => probe.result = "none"
    /\ probe.pc = "done" =>
          /\ probe.result \in {"true", "false"}
          /\ probe.result = "true" <=> probe.observed = 0
    /\ probe.observed # NoStatus => probe.observed = probe.status

\* C15: is_claude_cli_available answers true exactly when the version query
\* started and Command::output reported its exit with code 0; a spawn error,
\* a non-zero exit or a death by signal is answered false; and no step of the
\* probe changes the state of a call.
C15_ProbeTrueIffExitZero ==
    /\ []C15_ProbeAnswer
    /\ [][probe' # probe => CallState' = CallState /\ peer' = peer]_vars

C15_Witness ==
    /\ probe.pc = "done"
    /\ probe.result = "true"
    /\ probe.observed = 0
    /\ pc = "try_wait"

(* ------------------------------- C12 ----------------------------------- *)
C12_OwnProcessOwnDeadline ==
    /\ Returned =>
          /\ outcome = ExpectedOutcome
          /\ Kind = "Timeout" => elapsed = timeout + POLL_INTERVAL_MS
    /\ status = SIGKILL_STATUS => killResult = "ok" /\ elapsed > timeout
    /\ peer.status = SIGKILL_STATUS =>
          peer.killResult = "ok" /\ peer.elapsed > timeout

\* C12: of two calls in progress at once, every step is a step of one call
\* and leaves the other call's state (its backend, its clock, its outcome)
\* as it was; a backend is killed only by its own call, after that call's own
\* deadline; and each call returns the outcome its own text and its own
\* backend determine, a timeout at its own deadline.
C12_ConcurrentCallsIndependent ==
    /\ []C12_OwnProcessOwnDeadline
    /\ [][peer' = peer \/ (peer' = CallState /\ CallState' = peer)]_vars

C12_Witness ==
    /\ Returned
    /\ Kind = "Timeout"
    /\ peer.pc = "done"
    /\ peer.outcome = Ok(<<"a">>)
    /\ peer.calls.wait_with_output = 1
    /\ peer.elapsed = timeout

====
